---- MODULE Spec2Model ----
(***************************************************************************)
(* Model of drone-calculator1:                                             *)
(*   drone_app.py    the Streamlit script, one top-to-bottom run per       *)
(*                   widget interaction (SpecApp);                         *)
(*   desktop_app.py  the desktop wrapper: find_free_port, wait_until_up    *)
(*                   and main (SpecDesktop, FairWait).                     *)
(*                                                                         *)
(* Floats are modelled in fixed point: a finite float x is the integer     *)
(* x * Scale, truncated.  A value also carries what Python distinguishes:  *)
(* nan, inf, an unbound name, a raised exception, and whether it is a      *)
(* numpy float (np.float64 divides by zero to inf/nan with a warning,      *)
(* a Python float raises ZeroDivisionError).                               *)
(***************************************************************************)
EXTENDS Integers, Sequences, FiniteSets, TLC

VARIABLES
    \* ---- drone_app.py ----
    inp,        \* the widgets' current values (what st.number_input etc. return)
    pc,         \* position of the script run
    ns,         \* the script's namespace: name -> value (or unbound)
    ui,         \* what the run has rendered so far: metrics and warnings
    doc,        \* the lines drawn on the PDF canvas offered for download
    executed,   \* source lines of the guarded/dividing statements executed
    err,        \* the exception that ended the run, with its line
    \* ---- desktop_app.py ----
    busy,       \* the ports of 127.0.0.1 another socket holds: binding them raises OSError
    dpc,        \* position of main / find_free_port / wait_until_up
    p,          \* find_free_port: the port being probed
    sock,       \* find_free_port: the probe socket is open
    failed,     \* find_free_port: ports whose bind raised OSError
    port,       \* main: the port find_free_port returned (0: none yet)
    proc,       \* the hosted Streamlit process
    now,        \* time.time(), in tenths of a second
    t0,         \* wait_until_up: start time
    timeout,    \* wait_until_up: its timeout argument, in tenths of a second
    lastPoll,   \* wait_until_up: what the latest GET / came to
    up,         \* wait_until_up: its return value ("none" while running)
    log,        \* main: the externally visible events, in order
    exit        \* main: how it ended

appVars == <<inp, pc, ns, ui, doc, executed, err>>
deskVars == <<busy, dpc, p, sock, failed, port, proc, now, t0, timeout, lastPoll, up, log, exit>>
vars == <<inp, pc, ns, ui, doc, executed, err,
          busy, dpc, p, sock, failed, port, proc, now, t0, timeout, lastPoll, up, log, exit>>

-----------------------------------------------------------------------------
(* Bounds of the model *)

\* fixed-point resolution: a float x is held as x * Scale
Scale == 100
\* largest air density drawn, kg/m^3 (smallest is -1)
MaxDensity == 1
\* largest wing area drawn, m^2 (smallest is -1)
MaxWing == 2
\* largest lift coefficient drawn (smallest is -1)
MaxCl == 1
\* largest rotor diameter drawn, m (smallest is -1)
MaxRotor == 1
\* longest a single GET / takes, in tenths of a second
MaxPollDs == 2
\* the busy ports are among the first MaxBusy of the range, or the whole range
MaxBusy == 2

-----------------------------------------------------------------------------
(* Values *)

Num(n) == [k |-> "num", v |-> n, np |-> FALSE]
NpNum(n) == [k |-> "num", v |-> n, np |-> TRUE]
NaN == [k |-> "nan", v |-> 0, np |-> TRUE]
Inf == [k |-> "inf", v |-> 0, np |-> TRUE]
Unbound == [k |-> "unbound", v |-> 0, np |-> FALSE]
Raised(e) == [k |-> e, v |-> 0, np |-> FALSE]

IsErr(x) == x.k \in {"NameError", "ZeroDivisionError"}
IsNum(x) == x.k = "num"
Bound(x) == x.k # "unbound"

\* the literal n/d as a float
Fx(n, d) == Num((n * Scale) \div d)
Int2F(n) == Num(n * Scale)

Abs(n) == IF n < 0 THEN -n ELSE n
Sgn(n) == IF n < 0 THEN -1 ELSE 1
\* division truncating toward zero
TDiv(a, b) == Sgn(a) * Sgn(b) * (Abs(a) \div Abs(b))

\* a * b / Scale without leaving 32 bits: the larger factor is split
MulFx(a, b) ==
    LET s == Sgn(a) * Sgn(b)
        x == IF Abs(a) <= Abs(b) THEN Abs(a) ELSE Abs(b)
        y == IF Abs(a) <= Abs(b) THEN Abs(b) ELSE Abs(a)
    IN  s * (x * (y \div Scale) + (x * (y % Scale)) \div Scale)

\* a * Scale / b (b # 0) without leaving 32 bits
DivFx(a, b) ==
    LET s == Sgn(a) * Sgn(b)
        x == Abs(a)
        y == Abs(b)
    IN  IF y <= 2147483647 \div Scale
        THEN s * ((x \div y) * Scale + ((x % y) * Scale) \div y)
        ELSE s * (x \div (y \div Scale))

RECURSIVE ISqrtIn(_, _, _)
ISqrtIn(n, lo, hi) ==
    IF lo >= hi THEN lo
    ELSE LET mid == (lo + hi + 1) \div 2
         IN  IF mid * mid <= n THEN ISqrtIn(n, mid, hi) ELSE ISqrtIn(n, lo, mid - 1)

\* floor of the square root of n >= 0
ISqrt(n) == ISqrtIn(n, 0, IF n < 46340 THEN n ELSE 46340)

\* Python evaluates left to right: the first exception wins, then nan.
Lift(a, b, r) ==
    IF IsErr(a) THEN a
    ELSE IF IsErr(b) THEN b
    ELSE IF a.k = "unbound" \/ b.k = "unbound" THEN Raised("NameError")
    ELSE IF a.k = "nan" \/ b.k = "nan" THEN NaN
    ELSE r

IsNp(a, b) == a.np \/ b.np

\* a * b
Mul(a, b) ==
    Lift(a, b,
         IF a.k = "inf" \/ b.k = "inf"
         THEN (IF (IsNum(a) /\ a.v = 0) \/ (IsNum(b) /\ b.v = 0) THEN NaN ELSE Inf)
         ELSE [k |-> "num", v |-> MulFx(a.v, b.v), np |-> IsNp(a, b)])

\* a + b
Add(a, b) ==
    Lift(a, b,
         IF a.k = "inf" \/ b.k = "inf" THEN Inf
         ELSE [k |-> "num", v |-> a.v + b.v, np |-> IsNp(a, b)])

\* a / b: ZeroDivisionError between Python floats, inf or nan once numpy is involved
Div(a, b) ==
    Lift(a, b,
         IF a.k = "inf" THEN (IF b.k = "inf" THEN NaN ELSE Inf)
         ELSE IF b.k = "inf" THEN [k |-> "num", v |-> 0, np |-> TRUE]
         ELSE IF b.v = 0
              THEN (IF ~IsNp(a, b) THEN Raised("ZeroDivisionError")
                    ELSE IF a.v = 0 THEN NaN ELSE Inf)
              ELSE [k |-> "num", v |-> DivFx(a.v, b.v), np |-> IsNp(a, b)])

\* np.sqrt(a): nan (and a RuntimeWarning, no exception) below zero
Sqrt(a) ==
    IF IsErr(a) THEN a
    ELSE IF a.k = "unbound" THEN Raised("NameError")
    ELSE IF a.k = "nan" THEN NaN
    ELSE IF a.k = "inf" THEN Inf
    ELSE IF a.v < 0 THEN NaN
    ELSE NpNum(ISqrt(a.v * Scale))

\* a > 0 on the widgets' finite values
Gt0(a) == IsNum(a) /\ a.v > 0

\* np.linspace(start, stop, num)[i], i from 0: start + i * step
LinspaceAt(start, stop, num, i) ==
    NpNum(start.v + TDiv(i * (stop.v - start.v), num - 1))

\* np.linspace(start, stop, num)
Linspace(start, stop, num) ==
    [i \in 1..num |-> LinspaceAt(start, stop, num, i - 1)]

\* f"{x:.<digits>f}<unit>": the value rounded to that many decimals
Pow10(d) == 10 ^ d
Fmt(x, digits, unit) ==
    IF IsErr(x) THEN [k |-> x.k, m |-> 0, digits |-> digits, unit |-> unit]
    ELSE IF x.k = "unbound" THEN [k |-> "NameError", m |-> 0, digits |-> digits, unit |-> unit]
    ELSE IF ~IsNum(x) THEN [k |-> x.k, m |-> 0, digits |-> digits, unit |-> unit]
    ELSE [k |-> "num",
          m |-> Sgn(x.v) * ((2 * Abs(x.v) * Pow10(digits) + Scale) \div (2 * Scale)),
          digits |-> digits, unit |-> unit]

\* f"{x}<unit>": the value's repr
Repr(x, unit) ==
    IF x.k = "unbound" THEN [k |-> "NameError", m |-> 0, digits |-> -1, unit |-> unit]
    ELSE [k |-> x.k, m |-> x.v, digits |-> -1, unit |-> unit]

-----------------------------------------------------------------------------
(* drone_app.py: the widgets *)

\* st.sidebar.number_input("Air Density (kg/m^3)", value=1.225, step=0.01): any float
AirDensities == {Int2F(k) : k \in -1..MaxDensity}
\* st.number_input("Wing Area (m^2)", value=16.0, step=0.1): any float
WingAreas == {Int2F(k) : k \in -1..MaxWing}
\* st.number_input("Lift Coefficient (Cl)", value=1.2, step=0.1): any float
Cls == {Int2F(k) : k \in -1..MaxCl}
\* st.slider("Propeller Efficiency (%)", 0, 100, 80): an int in 0..100
PropSliders == {0, 50, 100}
\* st.number_input("Rotor Diameter (m)", value=0.3, step=0.05): any float
RotorDiameters == {Int2F(k) : k \in -1..MaxRotor}
\* st.number_input("Frame Weight (kg)", value=1.5, step=0.1): any float
FrameWeights == {Fx(-5, 10), Fx(15, 10)}

\* The widgets' values.  Magnitudes are kept small (a 12 kg aircraft, 1 MJ/kg
\* fuel) so that every intermediate product fits 32 bits.
Inputs ==
    [air_density : AirDensities,
     gravity : {Fx(981, 100)},
     wing_area : WingAreas,
     weight : {Int2F(12)},
     cl : Cls,
     thrust : {Int2F(1)},
     prop_slider : PropSliders,
     fuel_energy_density : {Int2F(1)},
     fuel_mass : {Int2F(1)},
     num_rotors : {Int2F(4)},
     rotor_diameter : RotorDiameters,
     battery_capacity : {Int2F(1000)},
     battery_voltage : {Int2F(10)},
     payload : {Int2F(1)},
     frame_weight : FrameWeights,
     report_btn : BOOLEAN]

\* the namespace of a run that has executed nothing yet
EmptyNs ==
    [stall_speed |-> Unbound, speeds |-> <<>>, power_required |-> <<>>,
     prop_efficiency |-> Unbound, power_available |-> Unbound, endurance |-> Unbound,
     thrust_per_motor |-> Unbound, disk_area |-> Unbound, induced_velocity |-> Unbound,
     total_power |-> Unbound, total_energy |-> Unbound,
     endurance_vals |-> <<>>, throttle_vals |-> <<>>]

NoErr == [type |-> "none", line |-> 0]

Metric(tab, label, text) == [kind |-> "metric", tab |-> tab, label |-> label, text |-> text]
Warning(tab, msg) ==
    [kind |-> "warning", tab |-> tab, label |-> msg,
     text |-> [k |-> "text", m |-> 0, digits |-> -1, unit |-> ""]]

\* an exception at `line` ends the run: Streamlit shows the traceback, nothing below runs
Crash(type, line) ==
    /\ pc' = "crashed"
    /\ err' = [type |-> type, line |-> line]

-----------------------------------------------------------------------------
(* drone_app.py: Aerodynamics tab, lines 22-45 *)

\* line 31
StallGuard(i) == Gt0(i.wing_area) /\ Gt0(i.air_density) /\ Gt0(i.cl)

\* line 32
StallSpeed(i) ==
    Sqrt(Div(Mul(Mul(Int2F(2), i.weight), i.gravity),
             Mul(Mul(i.air_density, i.wing_area), i.cl)))

\* np.linspace(20, 100, 30, endpoint=False): the step divides by num, 100 is not reached
SpeedsNoEndpoint ==
    [n \in 1..30 |-> NpNum(Int2F(20).v + TDiv((n - 1) * (Int2F(100).v - Int2F(20).v), 30))]

\* line 39
Speeds == Linspace(Int2F(20), Int2F(100), 30)

\* lines 40-42, one speed: drag = 0.5 * air_density * speed**2 * wing_area * drag_coeff,
\* power_required = drag * speed / 1000
PowerAt(i, speed) ==
    LET drag == Mul(Mul(Mul(Mul(Fx(5, 10), i.air_density), Mul(speed, speed)),
                        i.wing_area), Fx(3, 100))
    IN  Div(Mul(drag, speed), Int2F(1000))

\* lines 39-42
PowerRequired(i) == [n \in DOMAIN Speeds |-> PowerAt(i, Speeds[n])]

Aerodynamics ==
    /\ pc = "aero"
    /\ IF StallGuard(inp)
       THEN LET stall_speed == StallSpeed(inp)
            IN  /\ ns' = [ns EXCEPT !.stall_speed = stall_speed,
                                    !.speeds = Speeds,
                                    !.power_required = PowerRequired(inp)]
                /\ ui' = Append(ui, Metric("Aerodynamics", "Stall Speed",
                                           Fmt(stall_speed, 2, "m/s")))
                /\ executed' = executed \cup {32}
       ELSE /\ ns' = [ns EXCEPT !.speeds = Speeds,
                                !.power_required = PowerRequired(inp)]
            /\ ui' = Append(ui, Warning("Aerodynamics",
                            "Enter valid values for Wing Area, Air Density and Cl"))
            /\ executed' = executed \cup {35}
    /\ pc' = "prop"
    /\ UNCHANGED <<inp, doc, err>>
    /\ UNCHANGED deskVars

-----------------------------------------------------------------------------
(* drone_app.py: Propulsion tab, lines 50-66 *)

\* line 55
PropEfficiency(i) == Div(Int2F(i.prop_slider), Int2F(100))

\* the guard written as prop_efficiency >= 0
PropGuardGe(pe) == IsNum(pe) /\ pe.v >= 0

\* line 60
PropGuard(pe) == Gt0(pe)

\* line 61
PowerAvailable(i, stall_speed, pe) ==
    Div(Div(Mul(i.thrust, stall_speed), Int2F(1000)), pe)

\* line 65
PropEndurance(i, power_available) ==
    Div(Mul(Mul(i.fuel_energy_density, Int2F(1000000)), i.fuel_mass),
        Mul(Mul(power_available, Int2F(1000)), Int2F(3600)))

Propulsion ==
    /\ pc = "prop"
    /\ LET pe == PropEfficiency(inp)
           power_available == PowerAvailable(inp, ns.stall_speed, pe)
           endurance == PropEndurance(inp, power_available)
       IN  IF ~PropGuard(pe)
           THEN /\ ns' = [ns EXCEPT !.prop_efficiency = pe]
                /\ pc' = "multi"
                /\ UNCHANGED <<ui, executed, err>>
           ELSE IF IsErr(power_available)
           THEN /\ ns' = [ns EXCEPT !.prop_efficiency = pe]
                /\ executed' = executed \cup {61}
                /\ Crash(power_available.k, 61)
                /\ UNCHANGED ui
           ELSE IF IsErr(endurance)
           THEN /\ ns' = [ns EXCEPT !.prop_efficiency = pe,
                                    !.power_available = power_available]
                /\ ui' = Append(ui, Metric("Propulsion", "Power Available",
                                           Fmt(power_available, 2, "kW")))
                /\ executed' = executed \cup {61, 65}
                /\ Crash(endurance.k, 65)
           ELSE /\ ns' = [ns EXCEPT !.prop_efficiency = pe,
                                    !.power_available = power_available,
                                    !.endurance = endurance]
                /\ ui' = ui \o <<Metric("Propulsion", "Power Available",
                                        Fmt(power_available, 2, "kW")),
                                 Metric("Propulsion", "Estimated Endurance",
                                        Fmt(endurance, 2, "hr"))>>
                /\ executed' = executed \cup {61, 65}
                /\ pc' = "multi"
                /\ UNCHANGED err
    /\ UNCHANGED <<inp, doc>>
    /\ UNCHANGED deskVars

-----------------------------------------------------------------------------
(* drone_app.py: Multirotor tab, lines 71-112 *)

\* np.pi
Pi == Fx(314159, 100000)

\* line 83, for a payload
TotalWeight(i, payload) == Mul(Add(payload, i.frame_weight), i.gravity)

\* line 84
ThrustPerMotor(i, payload) == Div(TotalWeight(i, payload), i.num_rotors)

\* line 85
DiskArea(i) ==
    LET r == Div(i.rotor_diameter, Int2F(2))
    IN  Mul(Pi, Mul(r, r))

\* lines 86 and 104: no guard on 2 * air_density * disk_area
InducedVelocity(i, tpm) ==
    Sqrt(Div(tpm, Mul(Mul(Int2F(2), i.air_density), DiskArea(i))))

\* lines 87-88 and 105-106
TotalPower(i, tpm, iv) == Mul(Mul(tpm, iv), i.num_rotors)

\* line 89
TotalEnergy(i) ==
    Mul(Mul(Div(i.battery_capacity, Int2F(1000)), i.battery_voltage), Int2F(3600))

\* line 90
HoverEndurance(i, total_power) ==
    Div(Div(TotalEnergy(i), Mul(total_power, Fx(10, 10))), Int2F(60))

Multirotor ==
    /\ pc = "multi"
    /\ LET tpm == ThrustPerMotor(inp, inp.payload)
           iv == InducedVelocity(inp, tpm)
           tp == TotalPower(inp, tpm, iv)
           endurance == HoverEndurance(inp, tp)
       IN  IF IsErr(iv)
           THEN /\ ns' = [ns EXCEPT !.thrust_per_motor = tpm,
                                    !.disk_area = DiskArea(inp)]
                /\ executed' = executed \cup {86}
                /\ Crash(iv.k, 86)
                /\ UNCHANGED ui
           ELSE /\ ns' = [ns EXCEPT !.thrust_per_motor = tpm,
                                    !.disk_area = DiskArea(inp),
                                    !.induced_velocity = iv,
                                    !.total_power = tp,
                                    !.total_energy = TotalEnergy(inp),
                                    !.endurance = endurance]
                /\ ui' = ui \o <<Metric("Multirotor", "Thrust per Motor",
                                        Fmt(tpm, 1, "N")),
                                 Metric("Multirotor", "Total Hover Power",
                                        Fmt(Div(tp, Int2F(1000)), 2, "kW")),
                                 Metric("Multirotor", "Estimated Endurance",
                                        Fmt(endurance, 1, "min"))>>
                /\ executed' = executed \cup {86, 88, 90}
                /\ pc' = "sweep"
                /\ UNCHANGED err
    /\ UNCHANGED <<inp, doc>>
    /\ UNCHANGED deskVars

\* line 98
Payloads == Linspace(Fx(5, 10), Fx(50, 10), 20)

\* lines 102-107: te for one swept payload
SweepEndurance(i, pl) ==
    LET tpm == ThrustPerMotor(i, pl)
        iv == InducedVelocity(i, tpm)
        tp == TotalPower(i, tpm, iv)
    IN  Div(Div(Mul(Mul(Div(i.battery_capacity, Int2F(1000)), i.battery_voltage),
                    Int2F(3600)), tp), Int2F(60))

\* line 109: the hover throttle, with 9.8 for gravity
SweepThrottle(i, pl) ==
    Div(ThrustPerMotor(i, pl),
        Mul(Fx(98, 10), Add(Div(i.frame_weight, i.num_rotors), Div(pl, i.num_rotors))))

\* the first swept point whose statements raise, 0 if none
FirstRaising(i) ==
    LET bad == {n \in DOMAIN Payloads :
                    IsErr(SweepEndurance(i, Payloads[n])) \/ IsErr(SweepThrottle(i, Payloads[n]))}
    IN  IF bad = {} THEN 0 ELSE CHOOSE n \in bad : \A m \in bad : n <= m

PayloadSweep ==
    /\ pc = "sweep"
    /\ LET bad == FirstRaising(inp)
       IN  IF bad # 0
           THEN LET te == SweepEndurance(inp, Payloads[bad])
                IN  /\ ns' = [ns EXCEPT
                            !.endurance_vals = [n \in 1..(bad - 1) |-> SweepEndurance(inp, Payloads[n])],
                            !.throttle_vals = [n \in 1..(bad - 1) |-> SweepThrottle(inp, Payloads[n])]]
                    /\ executed' = executed \cup (IF IsErr(te) THEN {104} ELSE {104, 107, 109})
                    /\ IF IsErr(te) THEN Crash(te.k, 104)
                       ELSE Crash(SweepThrottle(inp, Payloads[bad]).k, 109)
           ELSE /\ ns' = [ns EXCEPT
                            !.endurance_vals = [n \in DOMAIN Payloads |-> SweepEndurance(inp, Payloads[n])],
                            !.throttle_vals = [n \in DOMAIN Payloads |-> SweepThrottle(inp, Payloads[n])]]
                /\ executed' = executed \cup {104, 107, 109}
                /\ pc' = "export"
                /\ UNCHANGED err
    /\ UNCHANGED <<inp, ui, doc>>
    /\ UNCHANGED deskVars

-----------------------------------------------------------------------------
(* drone_app.py: Export Report, lines 117-148 *)

\* lines 128-142: the (label, value) list, built from the namespace as it is now
ReportLines(i, n) ==
    <<[label |-> "Air Density", text |-> Repr(i.air_density, "kg/m3")],
      [label |-> "Gravity", text |-> Repr(i.gravity, "m/s2")],
      [label |-> "Wing Area", text |-> Repr(i.wing_area, "m2")],
      [label |-> "Weight", text |-> Repr(i.weight, "kg")],
      [label |-> "Lift Coefficient", text |-> Repr(i.cl, "")],
      [label |-> "Stall Speed", text |-> Fmt(n.stall_speed, 2, "m/s")],
      [label |-> "Thrust", text |-> Repr(i.thrust, "N")],
      [label |-> "Propeller Efficiency",
       text |-> Fmt(Mul(n.prop_efficiency, Int2F(100)), 1, "%")],
      [label |-> "Fuel Mass", text |-> Repr(i.fuel_mass, "kg")],
      [label |-> "Estimated Endurance", text |-> Fmt(n.endurance, 2, "hr")],
      [label |-> "Number of Rotors", text |-> Repr(i.num_rotors, "")],
      [label |-> "Rotor Diameter", text |-> Repr(i.rotor_diameter, "m")],
      [label |-> "Battery Capacity", text |-> Repr(i.battery_capacity, "mAh")],
      [label |-> "Battery Voltage", text |-> Repr(i.battery_voltage, "V")],
      [label |-> "Multirotor Endurance", text |-> Fmt(n.endurance, 1, "min")]>>

\* lines 127, 143-144: one drawString per pair, from y = 770 down by 20
Drawn(lines) ==
    [n \in DOMAIN lines |-> [label |-> lines[n].label, text |-> lines[n].text,
                             y |-> 770 - 20 * (n - 1)]]

\* the first pair whose f-string raises, 0 if none
FirstBadLine(lines) ==
    LET bad == {n \in DOMAIN lines : lines[n].text.k \in {"NameError", "ZeroDivisionError"}}
    IN  IF bad = {} THEN 0 ELSE CHOOSE n \in bad : \A m \in bad : n <= m

Export ==
    /\ pc = "export"
    /\ IF ~inp.report_btn
       THEN /\ pc' = "done"
            /\ UNCHANGED <<doc, err>>
       ELSE LET lines == ReportLines(inp, ns)
                bad == FirstBadLine(lines)
            IN  IF bad # 0
                THEN /\ Crash(lines[bad].text.k, 127 + bad)
                     /\ UNCHANGED doc
                ELSE /\ doc' = Drawn(lines)
                     /\ pc' = "done"
                     /\ UNCHANGED err
    /\ UNCHANGED <<inp, ns, ui, executed>>
    /\ UNCHANGED deskVars

-----------------------------------------------------------------------------
(* drone_app.py: a widget interaction reruns the script from line 1 in a     *)
(* fresh namespace; st.button returns True only in the run its click starts *)

Fresh ==
    /\ pc' = "aero"
    /\ ns' = EmptyNs
    /\ ui' = <<>>
    /\ doc' = <<>>
    /\ executed' = {}
    /\ err' = NoErr

\* the widget values after one interaction
Interaction(i) ==
    {[i EXCEPT !.air_density = v, !.report_btn = FALSE] : v \in AirDensities \ {i.air_density}}
    \cup {[i EXCEPT !.wing_area = v, !.report_btn = FALSE] : v \in WingAreas \ {i.wing_area}}
    \cup {[i EXCEPT !.cl = v, !.report_btn = FALSE] : v \in Cls \ {i.cl}}
    \cup {[i EXCEPT !.prop_slider = v, !.report_btn = FALSE] : v \in PropSliders \ {i.prop_slider}}
    \cup {[i EXCEPT !.rotor_diameter = v, !.report_btn = FALSE] :
            v \in RotorDiameters \ {i.rotor_diameter}}
    \cup {[i EXCEPT !.frame_weight = v, !.report_btn = FALSE] :
            v \in FrameWeights \ {i.frame_weight}}
    \cup {[i EXCEPT !.report_btn = TRUE]}

Rerun ==
    /\ pc \in {"done", "crashed"}
    /\ inp' \in Interaction(inp)
    /\ Fresh
    /\ UNCHANGED deskVars

DeskIdle ==
    /\ dpc = "idle"
    /\ p = 0
    /\ sock = FALSE
    /\ failed = {}
    /\ port = 0
    /\ proc = "none"
    /\ now = 0
    /\ t0 = 0
    /\ timeout = 0
    /\ lastPoll = "none"
    /\ up = "none"
    /\ log = <<>>
    /\ exit = "none"

InitApp ==
    /\ inp \in {j \in Inputs : ~j.report_btn}
    /\ pc = "aero"
    /\ ns = EmptyNs
    /\ ui = <<>>
    /\ doc = <<>>
    /\ executed = {}
    /\ err = NoErr
    /\ busy = {}
    /\ DeskIdle

NextApp ==
    \/ Aerodynamics
    \/ Propulsion
    \/ Multirotor
    \/ PayloadSweep
    \/ Export
    \/ Rerun

SpecApp == InitApp /\ [][NextApp]_vars

-----------------------------------------------------------------------------
(* drone_app.py: the claims *)

MetricShown(tab, label) ==
    \E n \in DOMAIN ui : ui[n].kind = "metric" /\ ui[n].tab = tab /\ ui[n].label = label

MetricText(tab, label) ==
    LET n == CHOOSE m \in DOMAIN ui :
                ui[m].kind = "metric" /\ ui[m].tab = tab /\ ui[m].label = label
    IN  ui[n].text

WarningShown(tab) == \E n \in DOMAIN ui : ui[n].kind = "warning" /\ ui[n].tab = tab

DocText(label) ==
    LET n == CHOOSE m \in DOMAIN doc : doc[m].label = label
    IN  doc[n].text

InvalidAero(i) == ~Gt0(i.air_density) \/ ~Gt0(i.wing_area) \/ ~Gt0(i.cl)
InvalidRotor(i) == ~Gt0(i.rotor_diameter) \/ ~Gt0(i.air_density)

\* the run has gone past the Multirotor tab's statements (lines 83-112)
PastMultirotor == pc \in {"export", "done"} \/ (pc = "crashed" /\ err.line >= 83)
\* the run has reached the export block (line 121)
ReachedExport == pc = "done" \/ (pc = "crashed" /\ err.line >= 121)

\* C1: with air_density <= 0 or wing_area <= 0 or cl <= 0, once the Aerodynamics
\* tab has run the stall speed is not computed, the validation message is shown,
\* power_available and the propulsion endurance are not reported, and the run
\* raises neither a NameError nor any error in the Aerodynamics/Propulsion tabs.
C1_InvalidAeroUnavailable ==
    (InvalidAero(inp) /\ pc # "aero") =>
        /\ 32 \notin executed
        /\ ~Bound(ns.stall_speed)
        /\ WarningShown("Aerodynamics")
        /\ ~MetricShown("Propulsion", "Power Available")
        /\ ~MetricShown("Propulsion", "Estimated Endurance")
        /\ err.type # "NameError"
        /\ ~(err.type # "none" /\ err.line <= 66)

\* C2: when the export is requested and reached in a run where stall_speed or the
\* propulsion endurance was not computed, an explicit "no results" message is
\* shown, no document is produced and no error is raised.
C2_ExportNeedsResults ==
    (inp.report_btn /\ ReachedExport /\ (~Bound(ns.stall_speed) \/ 65 \notin executed)) =>
        /\ doc = <<>>
        /\ err.type = "none"
        /\ WarningShown("Export")

\* C3: in a report built in a run where everything was computed, the
\* "Estimated Endurance" line carries the propulsion endurance (the hours the
\* Propulsion tab computed and displayed) and the "Multirotor Endurance" line
\* carries the multirotor endurance (the minutes the Multirotor tab displayed).
C3_ReportEnduranceLines ==
    (pc = "done" /\ doc # <<>> /\ {32, 65, 90} \subseteq executed) =>
        /\ DocText("Estimated Endurance") = MetricText("Propulsion", "Estimated Endurance")
        /\ DocText("Multirotor Endurance") = MetricText("Multirotor", "Estimated Endurance")

\* C4: with rotor_diameter <= 0 or air_density <= 0, once the Multirotor tab has
\* run, induced_velocity, total_power and endurance were evaluated neither for the
\* operating point nor for the sweep, a validation message is shown, no
\* multirotor metric is shown and the tab raised no error.
C4_MultirotorGuard ==
    (InvalidRotor(inp) /\ PastMultirotor) =>
        /\ executed \cap {86, 88, 90, 104, 107} = {}
        /\ WarningShown("Multirotor")
        /\ ~MetricShown("Multirotor", "Total Hover Power")
        /\ ~MetricShown("Multirotor", "Estimated Endurance")
        /\ ~(err.type # "none" /\ err.line \in 83..112)

\* C5: with the efficiency slider at 0, once the Propulsion tab has run, neither
\* power_available nor the propulsion endurance is computed or displayed, and
\* neither dividing statement (lines 61, 65) is executed.
C5_ZeroEfficiencyUnavailable ==
    (inp.prop_slider = 0 /\ pc \notin {"aero", "prop"}) =>
        /\ executed \cap {61, 65} = {}
        /\ ~Bound(ns.power_available)
        /\ (pc = "multi" => ~Bound(ns.endurance))
        /\ ~MetricShown("Propulsion", "Power Available")
        /\ ~MetricShown("Propulsion", "Estimated Endurance")
        /\ ~(err.type # "none" /\ err.line \in 55..66)

\* the Propulsion tab has run with the slider at 0 and a computed stall speed
C5_Witness ==
    /\ inp.prop_slider = 0
    /\ pc = "multi"
    /\ Bound(ns.stall_speed)
    /\ ns.prop_efficiency = Num(0)

\* the curve has 30 points, the n-th at 20 + (n - 1) * 80 / 29 up to the resolution
CurveGrid ==
    /\ Len(ns.speeds) = 30
    /\ Len(ns.power_required) = 30
    /\ ns.speeds[1] = NpNum(20 * Scale)
    /\ ns.speeds[30] = NpNum(100 * Scale)
    /\ \A n \in 1..30 :
          LET off == 29 * (ns.speeds[n].v - 20 * Scale) - (n - 1) * 80 * Scale
          IN  -29 < off /\ off < 29

\* the power values are non-negative and strictly increasing with speed
CurveRising ==
    /\ \A n \in 1..30 : IsNum(ns.power_required[n]) /\ ns.power_required[n].v >= 0
    /\ \A n \in 1..29 : ns.power_required[n].v < ns.power_required[n + 1].v

\* C9 as stated: whatever air_density and wing_area are, the power-required curve
\* has 30 equally spaced points from 20 to 100 and its power values are
\* non-negative and strictly increasing.
C9_PowerCurveAlways == (pc # "aero") => (CurveGrid /\ CurveRising)

\* C9 amended: the curve always has 30 equally spaced points from 20 to 100; its
\* power values are non-negative and strictly increasing when
\* air_density * wing_area > 0.
C9_PowerCurveShape ==
    (pc # "aero") =>
        /\ CurveGrid
        /\ (inp.air_density.v * inp.wing_area.v > 0 => CurveRising)

\* the Aerodynamics tab has run on a positive air density and wing area
C9_Witness ==
    /\ pc = "prop"
    /\ Gt0(inp.air_density) /\ Gt0(inp.wing_area)
    /\ Len(ns.power_required) = 30
    /\ ns.power_required[1].v > 0

-----------------------------------------------------------------------------
(* desktop_app.py: find_free_port, lines 18-26 *)

\* find_free_port(start=8501, ...)
StartPort == 8501
\* find_free_port(..., end=8999)
EndPort == 8999

\* what may be busy when find_free_port is called
BusySets == SUBSET (StartPort..(StartPort + MaxBusy - 1)) \cup {StartPort..EndPort}

\* range(start, end) in place of range(start, end + 1)
InRangeExclusive(q) == q < EndPort

\* line 19: p in range(start, end + 1)
InRange(q) == q <= EndPort

\* main, lines 53-54: script_path(), then find_free_port() is entered
MainStart ==
    /\ dpc = "idle"
    /\ p' = StartPort
    /\ dpc' = "ffp_for"
    /\ UNCHANGED <<sock, failed, port, proc, now, t0, timeout, lastPoll, up, log, exit>>
    /\ UNCHANGED <<appVars, busy>>

\* lines 19-20: the next p, and its probe socket
ProbeOpen ==
    /\ dpc = "ffp_for"
    /\ InRange(p)
    /\ sock' = TRUE
    /\ dpc' = "ffp_bind"
    /\ UNCHANGED <<p, failed, port, proc, now, t0, timeout, lastPoll, up, log, exit>>
    /\ UNCHANGED <<appVars, busy>>

\* lines 22-23: the bind succeeds; return p, the with block closing the socket
BindOk ==
    /\ dpc = "ffp_bind"
    /\ p \notin busy
    /\ sock' = FALSE
    /\ port' = p
    /\ dpc' = "m_spawn"
    /\ UNCHANGED <<p, failed, proc, now, t0, timeout, lastPoll, up, log, exit>>
    /\ UNCHANGED <<appVars, busy>>

\* lines 24-25: the bind raises OSError; continue, the with block closing the socket
BindFails ==
    /\ dpc = "ffp_bind"
    /\ p \in busy
    /\ sock' = FALSE
    /\ failed' = failed \cup {p}
    /\ p' = p + 1
    /\ dpc' = "ffp_for"
    /\ UNCHANGED <<port, proc, now, t0, timeout, lastPoll, up, log, exit>>
    /\ UNCHANGED <<appVars, busy>>

\* line 26: the range is exhausted; RuntimeError leaves main
NoFreePort ==
    /\ dpc = "ffp_for"
    /\ ~InRange(p)
    /\ exit' = "RuntimeError"
    /\ dpc' = "exited"
    /\ UNCHANGED <<p, sock, failed, port, proc, now, t0, timeout, lastPoll, up, log>>
    /\ UNCHANGED <<appVars, busy>>

-----------------------------------------------------------------------------
(* desktop_app.py: wait_until_up, lines 38-50 *)

\* timeout: float = 60.0, in tenths of a second
TimeoutDs == 600
\* time.sleep(0.3), in tenths of a second
SleepDs == 3

\* what a GET / can come to: an exception, or a response with a status
PollOutcomes == {"exception", "200", "302", "403", "404", "500", "503"}

\* any response counts as up, whatever its status
AcceptedAnyStatus == PollOutcomes \ {"exception"}

\* line 45: status in (200, 302, 403, 404)
Accepted == {"200", "302", "403", "404"}

\* main, lines 55-57: run_streamlit spawns the server, wait_until_up(port) is entered
Spawn ==
    /\ dpc = "m_spawn"
    /\ proc' = "running"
    /\ log' = Append(log, "spawn")
    /\ t0' = now
    /\ timeout' = TimeoutDs
    /\ dpc' = "w_while"
    /\ UNCHANGED <<p, sock, failed, port, now, lastPoll, up, exit>>
    /\ UNCHANGED <<appVars, busy>>

\* line 41: while time.time() - t0 < timeout
WaitEnterLoop ==
    /\ dpc = "w_while"
    /\ now - t0 < timeout
    /\ dpc' = "w_try"
    /\ UNCHANGED <<p, sock, failed, port, proc, now, t0, timeout, lastPoll, up, log, exit>>
    /\ UNCHANGED <<appVars, busy>>

\* line 50: the loop is left, return False
WaitTimedOut ==
    /\ dpc = "w_while"
    /\ ~(now - t0 < timeout)
    /\ up' = "false"
    /\ dpc' = "m_check"
    /\ UNCHANGED <<p, sock, failed, port, proc, now, t0, timeout, lastPoll, log, exit>>
    /\ UNCHANGED <<appVars, busy>>

\* lines 42-48: one GET /, taking d; return True on an accepted status,
\* any exception or other status falls through to the sleep
WaitPoll ==
    /\ dpc = "w_try"
    /\ \E o \in PollOutcomes, d \in 0..MaxPollDs :
          /\ lastPoll' = o
          /\ now' = now + d
          /\ IF o \in Accepted
             THEN /\ up' = "true"
                  /\ log' = Append(log, "up")
                  /\ dpc' = "m_check"
             ELSE /\ dpc' = "w_sleep"
                  /\ UNCHANGED <<up, log>>
    /\ UNCHANGED <<p, sock, failed, port, proc, t0, timeout, exit>>
    /\ UNCHANGED <<appVars, busy>>

\* line 49: time.sleep(0.3)
WaitSleep ==
    /\ dpc = "w_sleep"
    /\ now' = now + SleepDs
    /\ dpc' = "w_while"
    /\ UNCHANGED <<p, sock, failed, port, proc, t0, timeout, lastPoll, up, log, exit>>
    /\ UNCHANGED <<appVars, busy>>

-----------------------------------------------------------------------------
(* desktop_app.py: main, lines 52-73 *)

\* try: proc.terminate() / except Exception: pass
TerminateCall ==
    \E raises \in BOOLEAN :
        /\ log' = log \o (IF raises THEN <<"terminate", "terminate_raised">>
                          ELSE <<"terminate">>)
        /\ proc' = IF ~raises /\ proc = "running" THEN "terminated" ELSE proc

\* the startup failure that terminates and then goes on to line 62
MainStartupFailedNoExit ==
    /\ dpc = "m_check"
    /\ up = "false"
    /\ TerminateCall
    /\ dpc' = "m_open"
    /\ UNCHANGED <<p, sock, failed, port, now, t0, timeout, lastPoll, up, exit>>
    /\ UNCHANGED <<appVars, busy>>

\* lines 57-60: the server did not come up
MainStartupFailed ==
    /\ dpc = "m_check"
    /\ up = "false"
    /\ TerminateCall
    /\ exit' = "SystemExit"
    /\ dpc' = "exited"
    /\ UNCHANGED <<p, sock, failed, port, now, t0, timeout, lastPoll, up>>
    /\ UNCHANGED <<appVars, busy>>

\* lines 57, 62: the server is up, main goes on to open the URL
MainServerUp ==
    /\ dpc = "m_check"
    /\ up = "true"
    /\ dpc' = "m_open"
    /\ UNCHANGED <<p, sock, failed, port, proc, now, t0, timeout, lastPoll, up, log, exit>>
    /\ UNCHANGED <<appVars, busy>>

\* lines 64-67: webview imports, the window is created and webview.start() shows it
WebviewWindow ==
    /\ dpc = "m_open"
    /\ log' = Append(log, "window")
    /\ dpc' = "m_window"
    /\ UNCHANGED <<p, sock, failed, port, proc, now, t0, timeout, lastPoll, up, exit>>
    /\ UNCHANGED <<appVars, busy>>

\* the fallback without its proc.wait()
WebviewRaisesNoWait ==
    /\ dpc = "m_open"
    /\ log' = log \o <<"webview_raised", "browser">>
    /\ dpc' = "m_term"
    /\ UNCHANGED <<p, sock, failed, port, proc, now, t0, timeout, lastPoll, up, exit>>
    /\ UNCHANGED <<appVars, busy>>

\* lines 64-69: import webview, create_window or start raises; webbrowser.open(url)
WebviewRaises ==
    /\ dpc = "m_open"
    /\ log' = log \o <<"webview_raised", "browser">>
    /\ dpc' = "m_procwait"
    /\ UNCHANGED <<p, sock, failed, port, proc, now, t0, timeout, lastPoll, up, exit>>
    /\ UNCHANGED <<appVars, busy>>

\* line 67: the window is closed, webview.start() returns
WindowClosed ==
    /\ dpc = "m_window"
    /\ log' = Append(log, "closed")
    /\ dpc' = "m_term"
    /\ UNCHANGED <<p, sock, failed, port, proc, now, t0, timeout, lastPoll, up, exit>>
    /\ UNCHANGED <<appVars, busy>>

\* the hosted process ends by itself
ProcExits ==
    /\ proc = "running"
    /\ proc' = "exited"
    /\ UNCHANGED <<dpc, p, sock, failed, port, now, t0, timeout, lastPoll, up, log, exit>>
    /\ UNCHANGED <<appVars, busy>>

\* line 70: proc.wait() returns once the process has ended
ProcWaitReturns ==
    /\ dpc = "m_procwait"
    /\ proc # "running"
    /\ log' = Append(log, "waited")
    /\ dpc' = "m_term"
    /\ UNCHANGED <<p, sock, failed, port, proc, now, t0, timeout, lastPoll, up, exit>>
    /\ UNCHANGED <<appVars, busy>>

\* lines 72-73: terminate the hosted process, main returns
MainTerminate ==
    /\ dpc = "m_term"
    /\ TerminateCall
    /\ exit' = "returned"
    /\ dpc' = "exited"
    /\ UNCHANGED <<p, sock, failed, port, now, t0, timeout, lastPoll, up>>
    /\ UNCHANGED <<appVars, busy>>

-----------------------------------------------------------------------------
(* Specifications *)

\* the script is not running while the wrapper is looked at
AppIdle ==
    /\ inp = [air_density |-> Int2F(1), gravity |-> Fx(981, 100), wing_area |-> Int2F(1),
              weight |-> Int2F(12), cl |-> Int2F(1), thrust |-> Int2F(1), prop_slider |-> 50,
              fuel_energy_density |-> Int2F(1), fuel_mass |-> Int2F(1),
              num_rotors |-> Int2F(4), rotor_diameter |-> Int2F(1),
              battery_capacity |-> Int2F(1000), battery_voltage |-> Int2F(10),
              payload |-> Int2F(1), frame_weight |-> Fx(15, 10), report_btn |-> FALSE]
    /\ pc = "aero"
    /\ ns = EmptyNs
    /\ ui = <<>>
    /\ doc = <<>>
    /\ executed = {}
    /\ err = NoErr

InitDesktop == AppIdle /\ busy \in BusySets /\ DeskIdle

NextDesktop ==
    \/ MainStart
    \/ ProbeOpen
    \/ BindOk
    \/ BindFails
    \/ NoFreePort
    \/ Spawn
    \/ WaitEnterLoop
    \/ WaitTimedOut
    \/ WaitPoll
    \/ WaitSleep
    \/ MainStartupFailed
    \/ MainServerUp
    \/ WebviewWindow
    \/ WebviewRaises
    \/ WindowClosed
    \/ ProcExits
    \/ ProcWaitReturns
    \/ MainTerminate

SpecDesktop == InitDesktop /\ [][NextDesktop]_vars

\* wait_until_up(port, timeout) called on its own
InitWait ==
    /\ AppIdle
    /\ busy = {}
    /\ dpc = "w_while"
    /\ p = 0
    /\ sock = FALSE
    /\ failed = {}
    /\ port \in {StartPort, EndPort}
    /\ proc = "none"
    /\ now = 0
    /\ t0 = 0
    /\ timeout \in {0, SleepDs, TimeoutDs}
    /\ lastPoll = "none"
    /\ up = "none"
    /\ log = <<>>
    /\ exit = "none"

NextWait ==
    \/ WaitEnterLoop
    \/ WaitTimedOut
    \/ WaitPoll
    \/ WaitSleep

\* the function runs on: a GET / ends (socket timeout 1 s), a sleep ends
FairWait == InitWait /\ [][NextWait]_vars /\ WF_vars(NextWait)

-----------------------------------------------------------------------------
(* desktop_app.py: the claims *)

Has(e) == \E n \in DOMAIN log : log[n] = e
\* where e first is in the log, 0 if nowhere
Pos(e) == IF Has(e) THEN CHOOSE n \in DOMAIN log : log[n] = e /\ \A m \in 1..(n - 1) : log[m] # e
          ELSE 0
Count(e) == Cardinality({n \in DOMAIN log : log[n] = e})

\* C6: once wait_until_up has returned False, main opens neither a window nor a
\* browser, and it ends by SystemExit with terminate() called on the spawned
\* process (which then no longer runs, unless terminate() itself raised).
C6_StartupFailure ==
    up = "false" =>
        /\ ~Has("window") /\ ~Has("browser")
        /\ dpc \in {"m_check", "exited"}
        /\ (dpc = "exited" =>
               /\ exit = "SystemExit"
               /\ Has("spawn") /\ Pos("spawn") < Pos("terminate")
               /\ (proc # "running" \/ Has("terminate_raised")))

\* main has ended on a startup failure and the spawned process is terminated
C6_Witness ==
    /\ up = "false"
    /\ dpc = "exited"
    /\ proc = "terminated"
    /\ lastPoll # "none"

\* C7: a window or a browser is opened only after the spawn and then the
\* successful health check; the browser is opened exactly when the webview
\* attempt raised, the window otherwise; on the success path terminate() is
\* called only after the wait (window closed, or proc.wait() returned) has
\* ended; and when main returns normally all of these have happened, in that
\* order, with terminate() called once, last.
C7_StartupOrder ==
    /\ (Has("window") \/ Has("browser")) =>
          /\ Has("spawn") /\ Has("up") /\ Pos("spawn") < Pos("up")
          /\ (Has("window") => Pos("up") < Pos("window"))
          /\ (Has("browser") => Pos("up") < Pos("browser"))
    /\ Has("browser") <=> Has("webview_raised")
    /\ ~(Has("window") /\ Has("browser"))
    /\ (up = "true" /\ Has("terminate")) => (Has("closed") \/ Has("waited"))
    /\ Has("waited") => proc # "running" \/ Has("terminate")
    /\ exit = "returned" =>
          /\ up = "true"
          /\ Has("window") \/ Has("browser")
          /\ Has("window") =>
                Has("closed") /\ Pos("window") < Pos("closed") /\ Pos("closed") < Pos("terminate")
          /\ Has("browser") =>
                Has("waited") /\ Pos("browser") < Pos("waited") /\ Pos("waited") < Pos("terminate")
          /\ Count("terminate") = 1
          /\ \A n \in DOMAIN log : n > Pos("terminate") => log[n] = "terminate_raised"

\* main has returned after the browser fallback and its proc.wait()
C7_Witness ==
    /\ exit = "returned"
    /\ Has("browser")
    /\ Has("waited")
    /\ log[Len(log)] = "terminate"

\* C8: find_free_port probes 8501..8999 in increasing order; the port it returns
\* is the lowest one of the range that can be bound, every lower one having
\* failed to bind; it raises exactly when none of the range can be bound, after
\* trying them all; the probe socket is closed whenever it is not probing.
C8_FindFreePort ==
    /\ dpc \in {"ffp_for", "ffp_bind"} => failed = StartPort..(p - 1)
    /\ port # 0 =>
          /\ port \in StartPort..EndPort
          /\ port \notin busy
          /\ failed = StartPort..(port - 1)
          /\ failed \subseteq busy
    /\ dpc \notin {"idle", "ffp_for", "ffp_bind"} =>
          /\ exit = "RuntimeError" <=> (StartPort..EndPort) \subseteq busy
          /\ exit = "RuntimeError" <=> port = 0
          /\ exit = "RuntimeError" => failed = StartPort..EndPort
    /\ dpc # "ffp_bind" => ~sock

\* find_free_port has returned a port after lower ports failed to bind
C8_Witness ==
    /\ port = StartPort + MaxBusy
    /\ failed # {}
    /\ dpc = "m_spawn"

WaitInv ==
    /\ up = "true" => lastPoll \in {"200", "302", "403", "404"}
    /\ up = "false" => now - t0 >= timeout /\ lastPoll \notin {"200", "302", "403", "404"}
    /\ dpc = "w_sleep" => lastPoll \notin {"none", "200", "302", "403", "404"}

WaitStep ==
    /\ (dpc = "w_try" /\ lastPoll' \notin {"200", "302", "403", "404"}) =>
          (dpc' = "w_sleep" /\ up' = "none")
    /\ dpc = "w_sleep" => (dpc' = "w_while" /\ now' >= now + 3)
    /\ (dpc = "w_while" /\ now - t0 < timeout) => (dpc' = "w_try" /\ up' = "none")
    /\ up' = "false" => (dpc = "w_while" \/ up = "false")

\* C10: wait_until_up returns True only on a poll that received 200, 302, 403 or
\* 404; a poll that raised or received another status is followed by the sleep
\* and, while the elapsed time is below the timeout, by another poll; it returns
\* False only from the loop test, with the elapsed time at or past the timeout;
\* and it always returns.
C10_WaitUntilUp == []WaitInv /\ [][WaitStep]_vars /\ <>(up # "none")

\* the default timeout has run out after polls that were not accepted
C10_Witness ==
    /\ up = "false"
    /\ timeout = TimeoutDs
    /\ lastPoll \in {"exception", "500", "503"}
    /\ now - t0 >= TimeoutDs

====
